---- MODULE Spec2Model ----
(***************************************************************************)
(* Chat Resource & Share-Token Service of Chatviewer                       *)
(* (apps/rest-api/src/controllers/chatController.ts).                      *)
(*                                                                         *)
(* Every controller is an async function: it runs synchronously up to the  *)
(* next `await` of a datastore call, and other requests run in between.    *)
(* One action of this module is one datastore call of one request plus the *)
(* synchronous code that follows it up to the next await (or the response).*)
(* A controller that throws sends no response: the rejection of the async  *)
(* handler is not caught by anything in the controller ("threw").          *)
(***************************************************************************)
EXTENDS Integers, Sequences, FiniteSets, TLC

VARIABLES chats, nextId, now, req, deleted, held, pageNumber, query

vars == <<chats, nextId, now, req, deleted, held, pageNumber, query>>

\* the state of the Dashboard page of the web client
dash == <<pageNumber, query>>

(* ------------------------------ bounds -------------------------------- *)

\* chat ids the store hands out, and the ids requests ask for
MaxChats == 2
\* the clock (in days) runs from 0 to MaxTime
MaxTime == 1
\* requests in flight at the same time
NumReqs == 2
\* largest page / perPage a list request asks for
MaxPage == 2
\* chats created where lists are paged
MaxListed == 3
\* chats created where the Dashboard pages through them
MaxShown == 6

Reqs == 1 .. NumReqs
ChatIds == 1 .. MaxChats
\* rows of the users table (owned by the account component, never changed here)
Users == {1, 2}
\* userId values the auth payload resolves to: 0 stands for a missing or
\* non-numeric id (+undefined is NaN, and !NaN holds as !0 does), 3 for a
\* user whose row is gone
AuthIds == {0, 1, 2, 3}
Names == {"a", "b"}

(* --------------------------- JavaScript values ------------------------ *)

\* +req.query[...] : a number or NaN
NaN == [nan |-> TRUE, n |-> 0]
Num(n) == [nan |-> FALSE, n |-> n]
\* !x for a number x
Falsy(x) == x.nan \/ x.n = 0

\* req.query[...] as a string, or something that is no string (absent, array)
Str(s) == [isString |-> TRUE, text |-> s]
NotString == [isString |-> FALSE, text |-> ""]
Absent == [isString |-> FALSE, text |-> "absent"]

\* results of datastore reads
Null == [kind |-> "null"]
Undefined == [kind |-> "undefined"]
Instance(row) == [kind |-> "instance", row |-> row]
Array(rows) == [kind |-> "array", rows |-> rows]

\* v[0] : the first element of an array; a model instance has no property 0
ElementZero(v) ==
  IF v.kind = "array" /\ Len(v.rows) > 0 THEN Instance(v.rows[1]) ELSE Undefined

\* reading a property of null or undefined throws a TypeError
Throws(v) == v.kind \in {"null", "undefined"}

\* !chat for the result of a read: null is falsy, an instance or any array is not
Not(v) == v.kind \in {"null", "undefined"}

(* ------------------------------ Blob codec ---------------------------- *)

WordChars == {"d", "t", "x", "p", "b", "A", "Q", "g", "4"}
\* [\w-+\d.]
MimeChars == WordChars \cup {"-", "+", "."}
Base64Chars == {"A", "Q", "g", "4", "b", "d", "p", "t", "x", "+", "/"}

AllIn(s, i, j, cls) == \A k \in i .. j : s[k] \in cls

\* /[^:]\w+\/[\w-+\d.]+(?=;|,)/ matches s from position i up to position k
MatchesAt(s, i, k) ==
  /\ s[i] # ":"
  /\ \E j \in (i + 1) .. (k - 2) :
       /\ AllIn(s, i + 1, j, WordChars)
       /\ s[j + 1] = "/"
       /\ AllIn(s, j + 2, k, MimeChars)
  /\ k + 1 <= Len(s)
  /\ s[k + 1] \in {";", ","}

MatchPairs(s) ==
  {p \in (1 .. Len(s)) \X (1 .. Len(s)) : MatchesAt(s, p[1], p[2])}

\* String.prototype.match: null, or the leftmost match, the longest at that place
Match(s) ==
  IF MatchPairs(s) = {} THEN Null
  ELSE LET i == CHOOSE a \in {p[1] : p \in MatchPairs(s)} :
                  \A b \in {p[1] : p \in MatchPairs(s)} : a <= b
           k == CHOOSE a \in {p[2] : p \in {q \in MatchPairs(s) : q[1] = i}} :
                  \A b \in {p[2] : p \in {q \in MatchPairs(s) : q[1] = i}} : a >= b
       IN  Array(<<SubSeq(s, i, k)>>)

Commas(s) == {i \in 1 .. Len(s) : s[i] = ","}

MinOf(S) == CHOOSE a \in S : \A b \in S : a <= b

\* s.split(',')[1] : what lies between the first comma and the second (or the end)
SplitSecond(s) ==
  IF Commas(s) = {} THEN Undefined
  ELSE LET c1 == MinOf(Commas(s))
           rest == {i \in Commas(s) : i > c1}
           c2 == IF rest = {} THEN Len(s) + 1 ELSE MinOf(rest)
       IN  [kind |-> "string", text |-> SubSeq(s, c1 + 1, c2 - 1)]

B64Val(c) ==
  CASE c = "A" -> 0  [] c = "Q" -> 16 [] c = "b" -> 27 [] c = "d" -> 29
    [] c = "g" -> 32 [] c = "p" -> 41 [] c = "t" -> 45 [] c = "x" -> 49
    [] c = "4" -> 56 [] c = "+" -> 62 [] c = "/" -> 63

\* the bytes of one group of 2, 3 or 4 base64 characters (1 character: none)
GroupBytes(g) ==
  LET v(i) == IF i <= Len(g) THEN B64Val(g[i]) ELSE 0
      n == v(1) * 262144 + v(2) * 4096 + v(3) * 64 + v(4)
      all == <<n \div 65536, (n \div 256) % 256, n % 256>>
  IN  SubSeq(all, 1, Len(g) - 1)

RECURSIVE BytesOf(_)
BytesOf(cs) ==
  IF Len(cs) = 0 THEN <<>>
  ELSE IF Len(cs) <= 4 THEN GroupBytes(cs)
  ELSE GroupBytes(SubSeq(cs, 1, 4)) \o BytesOf(SubSeq(cs, 5, Len(cs)))

IsBase64(c) == c \in Base64Chars

\* Buffer.from(text, 'base64'): characters outside the alphabet are skipped, the
\* rest decoded; it throws only when text is no string
BufferFrom(v) ==
  IF v.kind # "string" THEN [threw |-> TRUE, bytes |-> <<>>]
  ELSE [threw |-> FALSE, bytes |-> BytesOf(SelectSeq(v.text, IsBase64))]

\* lines 31-38 of postChatController: the mime type and the bytes, or a throw
Decode(s) ==
  LET m == Match(s)
      buf == BufferFrom(SplitSecond(s))
  IN  IF Throws(ElementZero(m)) \/ buf.threw
        THEN [threw |-> TRUE, mimeType |-> <<>>, data |-> <<>>]
        ELSE [threw |-> FALSE, mimeType |-> m.rows[1], data |-> buf.bytes]

\* "data:text/plain;base64,<payload>" in the model's alphabet
GoodUri == <<"d", ":", "t", "x", "/", "p", ";", "b", ",", "Q", "Q", "g", "4">>
\* no MIME segment at all
NoMimeUri == <<"d", "x">>
\* a MIME segment, and a payload with no base64 character in it
BadPayloadUri == <<"d", ":", "t", "x", "/", "p", ";", "b", ",", "!", "!">>
\* a MIME segment and no comma: there is no payload
NoPayloadUri == <<"d", ":", "t", "x", "/", "p", ";", "b">>
\* a payload and no MIME segment
NoMimePayloadUri == <<"b", ",", "Q", "Q">>

(* ------------------------------ Chat store ---------------------------- *)

\* one row of the chats table
Row(id, u, nm, mime, bytes, t) ==
  [chatId |-> id, userId |-> u, name |-> nm, mimeType |-> mime, data |-> bytes,
   createdAt |-> t, updatedAt |-> t]

\* rows WHERE userId = u
RowsOf(u) == {c \in chats : c.userId = u}

\* rows WHERE chatId = id AND userId = u
RowsOfChat(u, id) == {c \in chats : c.chatId = id /\ c.userId = u}

\* rows WHERE chatId = id
RowsById(id) == {c \in chats : c.chatId = id}

\* Chat.findOne({ where: { chatId, userId } }) / Chat.findByPk(id)
FindOne(rows) == IF rows = {} THEN Null ELSE Instance(CHOOSE c \in rows : TRUE)

\* the update without userId in its where clause
UpdatedAnyOwner(u, id, nm) ==
  {IF c.chatId = id THEN [c EXCEPT !.name = nm, !.updatedAt = now] ELSE c : c \in chats}

\* Chat.update({ name }, { where: { userId, chatId } }): the rows after the update
Updated(u, id, nm) ==
  {IF c.chatId = id /\ c.userId = u
     THEN [c EXCEPT !.name = nm, !.updatedAt = now]
     ELSE c : c \in chats}

\* a destroy that deletes nothing
DestroyedNothing(id) == chats

\* chat.destroy(): DELETE of the row with the instance's primary key
Destroyed(id) == {c \in chats : c.chatId # id}

(* ------------------------------ responses ----------------------------- *)

NoToken == [chatId |-> 0, exp |-> 0, sig |-> "none"]

NoResp ==
  [state |-> "pending", status |-> 0, message |-> "", body |-> <<>>,
   link |-> <<>>, token |-> NoToken, total |-> 0]

\* res.status(s).json({ message: m })
Message(s, m) == [NoResp EXCEPT !.state = "sent", !.status = s, !.message = m]

\* res.status(200).json(b) / res.send(b)
Body(b) == [NoResp EXCEPT !.state = "sent", !.status = 200, !.body = b]

\* the handler threw outside any try: no response is sent
Threw == [NoResp EXCEPT !.state = "threw"]

\* the metadata object of the owner-scoped responses
Meta(c, url) ==
  [blobUrl |-> <<url, c.chatId>>, chatId |-> c.chatId, userId |-> c.userId,
   name |-> c.name, createdAt |-> c.createdAt, updatedAt |-> c.updatedAt]

\* the blob response: Content-Type and the bytes
Blob(c) == [mimeType |-> c.mimeType, data |-> c.data]

(* ------------------------------ requests ------------------------------ *)

Idle ==
  [op |-> "idle", pc |-> "idle", auth |-> 0, chatId |-> 0, name |-> "",
   uri |-> <<>>, page |-> NaN, perPage |-> NaN, sortBy |-> Absent,
   expiresIn |-> Absent, token |-> NoToken, rows |-> <<>>, after |-> FALSE,
   resp |-> NoResp]

Respond(r, resp) == req' = [req EXCEPT ![r].pc = "done", ![r].resp = resp]
Goto(r, pc) == req' = [req EXCEPT ![r].pc = pc]

\* const userID = +res.locals.user_auth_payload?.userId; if (!userID) 403
InvalidUserId(u) == u = 0

\* the user lookup taken as found whatever it returns
UserFoundAlways(u) == TRUE

\* const user = await User.findOne({ where: { userId } }); if (!user) 404
UserFound(u) == u \in Users

\* the first lines of every owner-scoped controller, up to the first await
Begin(r, rq) ==
  /\ req[r].op = "idle"
  /\ req' = [req EXCEPT ![r] =
       IF InvalidUserId(rq.auth)
         THEN [rq EXCEPT !.pc = "done", !.resp = Message(403, "Not a valid token")]
         ELSE [rq EXCEPT !.pc = "findUser"]]
  /\ UNCHANGED <<chats, nextId, now, deleted, held, dash>>

CreatesInFlight ==
  Cardinality({q \in Reqs : req[q].op = "create" /\ req[q].pc # "done"})

\* POST /chats
StartCreate(r, auths, uris, names, cap) ==
  /\ nextId + CreatesInFlight <= cap
  /\ \E u \in auths, s \in uris, nm \in names :
       Begin(r, [Idle EXCEPT !.op = "create", !.auth = u, !.uri = s, !.name = nm])

\* GET, DELETE /chats/:chat_id and GET /chats/:chat_id/blob
StartChatOp(r, ops, auths) ==
  /\ req[r].op = "idle"
  /\ \E op \in ops, u \in auths, id \in ChatIds :
      Begin(r, [Idle EXCEPT !.op = op, !.auth = u, !.chatId = id,
                            !.after = (<<u, id>> \in deleted)])

\* PATCH /chats/:chat_id
StartRename(r, auths) ==
  /\ req[r].op = "idle"
  /\ \E u \in auths, id \in ChatIds, nm \in Names :
      Begin(r, [Idle EXCEPT !.op = "rename", !.auth = u, !.chatId = id, !.name = nm])

\* GET /chats?page=&perPage=&sortBy=
StartList(r, auths, pages, sizes, sorts) ==
  /\ req[r].op = "idle"
  /\ \E u \in auths, p \in pages, n \in sizes, sb \in sorts :
      Begin(r, [Idle EXCEPT !.op = "list", !.auth = u, !.page = p, !.perPage = n,
                            !.sortBy = sb])

\* GET /chats/:chat_id/token?expiresIn=
StartToken(r, auths, spans) ==
  /\ req[r].op = "idle"
  /\ \E u \in auths, id \in ChatIds, e \in spans :
      Begin(r, [Idle EXCEPT !.op = "token", !.auth = u, !.chatId = id,
                            !.expiresIn = e])

SortColumns == {"createdAt", "name", "updatedAt"}

\* lines 76-95 of getAllChatsController: the two 400 answers, or on to the query
Validated(rq) ==
  IF Falsy(rq.perPage) \/ Falsy(rq.page)
    THEN [rq EXCEPT !.pc = "done", !.resp = Message(400, "Invalid perPage or page")]
  ELSE IF ~rq.sortBy.isString \/ rq.sortBy.text \notin SortColumns
    THEN [rq EXCEPT !.pc = "done",
                    !.resp = Message(400, "shortBy Should be name, createdAt or updatedAt")]
  ELSE [rq EXCEPT !.pc = "listQuery"]

\* user.hasChat(chatId) without await: the promise of the lookup, not its result
HasChat(u, id) == [kind |-> "promise"]

\* req.query.expiresIn ? req.query.expiresIn : '30d'  (undefined and '' are falsy)
Expiry(e) == IF e = Absent \/ e = Str("") THEN Str("30d") ELSE e

\* the timespan jsonwebtoken reads from a string, in days; 0 - 1000 when it reads none
NoSpan == 0 - 1000
Timespan(text) ==
  CASE text = "30d" -> 30 [] text = "1d" -> 1 [] text = "-1d" -> 0 - 1
    [] OTHER -> NoSpan

\* jwt.sign(payload, secret, { expiresIn }): throws on a timespan it cannot read
Sign(id, text) ==
  IF Timespan(text) = NoSpan THEN [threw |-> TRUE, token |-> NoToken]
  ELSE [threw |-> FALSE,
        token |-> [chatId |-> id, exp |-> now + Timespan(text), sig |-> "good"]]

\* lines 353-387 of getTokenByIdController
Issued(rq) ==
  IF Not(HasChat(rq.auth, rq.chatId))
    THEN [rq EXCEPT !.pc = "done", !.resp = Message(404, "Chat not found")]
  ELSE IF ~Expiry(rq.expiresIn).isString
    THEN [rq EXCEPT !.pc = "done", !.resp = Message(400, "expiresIn Should be string")]
  ELSE IF Sign(rq.chatId, Expiry(rq.expiresIn).text).threw
    THEN [rq EXCEPT !.pc = "done", !.resp = Message(400, "Invalid expiresIn")]
  ELSE [rq EXCEPT !.pc = "done",
          !.resp = [Message(200, "ok") EXCEPT
                      !.token = Sign(rq.chatId, Expiry(rq.expiresIn).text).token]]

\* what a controller does between the user lookup and its next await
AfterUser(rq) ==
  CASE rq.op = "create" ->
         IF Decode(rq.uri).threw
           THEN [rq EXCEPT !.pc = "done", !.resp = Threw]
           ELSE [rq EXCEPT !.pc = "createChat"]
    [] rq.op \in {"get", "blob", "delete"} -> [rq EXCEPT !.pc = "findChat"]
    [] rq.op = "rename" -> [rq EXCEPT !.pc = "update"]
    [] rq.op = "list" -> Validated(rq)
    [] rq.op = "token" -> Issued(rq)

\* await User.findOne(...) of every owner-scoped controller
FindUser(r) ==
  /\ req[r].pc = "findUser"
  /\ req' = [req EXCEPT ![r] =
       IF ~UserFound(req[r].auth)
         THEN [req[r] EXCEPT !.pc = "done", !.resp = Message(404, "User not found")]
         ELSE AfterUser(req[r])]
  /\ UNCHANGED <<chats, nextId, now, deleted, held, dash>>

\* the primary key the datastore generates for a new row: the next of a counter
NewChatId == nextId

\* await user.createChat(...) and the response of postChatController
CreateChat(r) ==
  /\ req[r].op = "create" /\ req[r].pc = "createChat"
  /\ LET d == Decode(req[r].uri)
         c == Row(NewChatId, req[r].auth, req[r].name, d.mimeType, d.data, now)
     IN  /\ chats' = chats \cup {c}
         /\ nextId' = nextId + 1
         /\ Respond(r, Body(<<Meta(c, "path")>>))
  /\ UNCHANGED <<now, deleted, held, dash>>

\* await Chat.findOne(...) and the response of getChatByIdController
GetFindChat(r) ==
  /\ req[r].op = "get" /\ req[r].pc = "findChat"
  /\ LET chat == FindOne(RowsOfChat(req[r].auth, req[r].chatId))
     IN  Respond(r, IF Not(chat) THEN Message(404, "Chat not found")
                    ELSE IF Throws(ElementZero(chat)) THEN Threw
                    ELSE Body(<<Meta(ElementZero(chat).row, "originalUrl")>>))
  /\ UNCHANGED <<chats, nextId, now, deleted, held, dash>>

\* await Chat.findOne(...) and the response of getChatBlobController
BlobFindChat(r) ==
  /\ req[r].op = "blob" /\ req[r].pc = "findChat"
  /\ LET chat == FindOne(RowsOfChat(req[r].auth, req[r].chatId))
     IN  Respond(r, IF Not(chat) THEN Message(404, "Chat not found")
                    ELSE Body(<<Blob(chat.row)>>))
  /\ UNCHANGED <<chats, nextId, now, deleted, held, dash>>

\* await Chat.update(...) of patchChatByIdController, and if (result[0] != 1)
RenameUpdate(r) ==
  /\ req[r].op = "rename" /\ req[r].pc = "update"
  /\ LET result == Cardinality(RowsOfChat(req[r].auth, req[r].chatId))
     IN  /\ chats' = Updated(req[r].auth, req[r].chatId, req[r].name)
         /\ IF result # 1 THEN Respond(r, Message(404, "Chat not found"))
            ELSE Goto(r, "reread")
  /\ UNCHANGED <<nextId, now, deleted, held, dash>>

\* await Chat.findOne(...) and the response of patchChatByIdController
RenameReread(r) ==
  /\ req[r].op = "rename" /\ req[r].pc = "reread"
  /\ LET chat == FindOne(RowsOfChat(req[r].auth, req[r].chatId))
     IN  Respond(r, IF Throws(chat) THEN Threw
                    ELSE Body(<<Meta(chat.row, "originalUrl")>>))
  /\ UNCHANGED <<chats, nextId, now, deleted, held, dash>>

\* await Chat.findOne(...) of deleteChatByIdController, and if (!chat)
DeleteFindChat(r) ==
  /\ req[r].op = "delete" /\ req[r].pc = "findChat"
  /\ LET chat == FindOne(RowsOfChat(req[r].auth, req[r].chatId))
     IN  IF Not(chat) THEN Respond(r, Message(404, "Chat not found"))
         ELSE Goto(r, "destroy")
  /\ UNCHANGED <<chats, nextId, now, deleted, held, dash>>

\* await chat.destroy() and the response of deleteChatByIdController
DeleteDestroy(r) ==
  /\ req[r].op = "delete" /\ req[r].pc = "destroy"
  /\ chats' = Destroyed(req[r].chatId)
  /\ deleted' = deleted \cup {<<req[r].auth, req[r].chatId>>}
  /\ Respond(r, Message(200, "ok"))
  /\ UNCHANGED <<nextId, now, held, dash>>

(* -------------------------------- list -------------------------------- *)

NameRank(nm) == CASE nm = "a" -> 1 [] nm = "b" -> 2

\* ORDER BY sortBy, with DESC for updatedAt: c may come before d
InOrder(c, d, sortBy) ==
  CASE sortBy = "name" -> NameRank(c.name) <= NameRank(d.name)
    [] sortBy = "createdAt" -> c.createdAt <= d.createdAt
    [] sortBy = "updatedAt" -> c.updatedAt >= d.updatedAt

\* the orders in which the datastore may return rows S under ORDER BY sortBy
\* (rows with equal keys come in any order)
Orderings(S, sortBy) ==
  {f \in [1 .. Cardinality(S) -> S] :
     /\ \A i, j \in 1 .. Cardinality(S) : i # j => f[i] # f[j]
     /\ \A i, j \in 1 .. Cardinality(S) : i < j => InOrder(f[i], f[j], sortBy)}

\* an offset that skips the asked page too
OffsetByPage(page, perPage) == perPage * page

\* OFFSET of the query
Offset(page, perPage) == perPage * (page - 1)

\* LIMIT perPage OFFSET offset applied to the ordered rows
Limit(ord, perPage, offset) ==
  IF offset >= Len(ord) THEN <<>>
  ELSE SubSeq(ord, offset + 1,
              IF offset + perPage < Len(ord) THEN offset + perPage ELSE Len(ord))

\* the datastore rejects a negative LIMIT or OFFSET: sequelize.query rejects
QueryFails(perPage, offset) == perPage < 0 \/ offset < 0

\* results.map(...) : the metadata of each row
MapMeta(rows) == [i \in 1 .. Len(rows) |-> Meta(rows[i], "path")]

\* await sequelize.query(ChatQuery, ...) of getAllChatsController
ListQuery(r) ==
  /\ req[r].op = "list" /\ req[r].pc = "listQuery"
  /\ LET n == req[r].perPage.n
         off == Offset(req[r].page.n, n)
     IN  IF QueryFails(n, off) THEN Respond(r, Threw)
         ELSE \E ord \in Orderings(RowsOf(req[r].auth), req[r].sortBy.text) :
                req' = [req EXCEPT ![r].pc = "listCount",
                                   ![r].rows = MapMeta(Limit(ord, n, off))]
  /\ UNCHANGED <<chats, nextId, now, deleted, held, dash>>

\* Math.ceil(total / perPage), for perPage > 0
TotalPages(total, perPage) == 0 - ((0 - total) \div perPage)

HasPrev(page) == page > 1

\* a next link on the last page too
HasNextToo(page, totalPages) == page <= totalPages

HasNext(page, totalPages) == page < totalPages

\* lines 153-168: the entries of the Link header
Links(page, perPage, total) ==
  (IF HasPrev(page)
     THEN <<[rel |-> "prev", page |-> page - 1, perPage |-> perPage]>> ELSE <<>>)
  \o (IF HasNext(page, TotalPages(total, perPage))
        THEN <<[rel |-> "next", page |-> page + 1, perPage |-> perPage]>> ELSE <<>>)

\* await sequelize.query(countQuery, ...) and the response of getAllChatsController
ListCount(r) ==
  /\ req[r].op = "list" /\ req[r].pc = "listCount"
  /\ LET total == Cardinality(RowsOf(req[r].auth))
     IN  Respond(r, [Body(req[r].rows) EXCEPT
                       !.total = total,
                       !.link = Links(req[r].page.n, req[r].perPage.n, total)])
  /\ UNCHANGED <<chats, nextId, now, deleted, held, dash>>

(* ---------------------------- shared by token ------------------------- *)

\* a verification that does not check the signature
VerifiesAnySignature(tok) == now < tok.exp

\* jwt.verify(token, secret): the signature is the server's and exp lies ahead
Verifies(tok) == tok.sig = "good" /\ now < tok.exp

\* a token signed with another key, and a string that is no JWT
Forged(id) == [chatId |-> id, exp |-> 30, sig |-> "bad"]
Malformed == [chatId |-> 0, exp |-> 0, sig |-> "malformed"]

\* the tokens a client can present: the one it was given, or one it made up
Presentable == (IF held = NoToken THEN {} ELSE {held}) \cup {Forged(1), Malformed}

\* the metadata object of the token-scoped response (no name)
SharedMeta(c) ==
  [blobUrl |-> <<"originalUrl", c.chatId>>, chatId |-> c.chatId,
   userId |-> c.userId, createdAt |-> c.createdAt, updatedAt |-> c.updatedAt]

\* GET /shared/:token and GET /shared/:token/blob, up to the first await
StartShared(r, ops) ==
  /\ req[r].op = "idle"
  /\ \E op \in ops, tok \in Presentable :
       req' = [req EXCEPT ![r] =
         IF ~Verifies(tok)
           THEN [Idle EXCEPT !.op = op, !.token = tok, !.pc = "done",
                             !.resp = Message(410, "jwt error")]
           ELSE [Idle EXCEPT !.op = op, !.token = tok, !.chatId = tok.chatId,
                             !.pc = "sharedFind"]]
  /\ UNCHANGED <<chats, nextId, now, deleted, held, dash>>

\* SELECT ... WHERE chatId = ? : the array of matching rows
QueryById(id) ==
  Array(IF RowsById(id) = {} THEN <<>> ELSE <<CHOOSE c \in RowsById(id) : TRUE>>)

\* await sequelize.query(...) and the response of getChatWithJwtController
SharedQuery(r) ==
  /\ req[r].op = "sharedGet" /\ req[r].pc = "sharedFind"
  /\ LET chat == QueryById(req[r].chatId)
     IN  Respond(r, IF Len(chat.rows) = 0 THEN Message(404, "Chat not found")
                    ELSE Body(<<SharedMeta(ElementZero(chat).row)>>))
  /\ UNCHANGED <<chats, nextId, now, deleted, held, dash>>

\* await Chat.findByPk(...) and the response of getBlobWithJwtController
SharedFindByPk(r) ==
  /\ req[r].op = "sharedBlob" /\ req[r].pc = "sharedFind"
  /\ LET chat == FindOne(RowsById(req[r].chatId))
     IN  Respond(r, IF Throws(chat) THEN Message(410, "TypeError")
                    ELSE Body(<<Blob(chat.row)>>))
  /\ UNCHANGED <<chats, nextId, now, deleted, held, dash>>

(* ------------------------------ Dashboard ----------------------------- *)

\* perPage: 5, // it is a constant
PerPage == 5

\* useState("name"): the sort order of the list, left at its initial value here
SortBy == "name"

\* what useGetChats holds: no data yet, or the last response shown, with the
\* page it was fetched for
NoData == [hasData |-> FALSE, isError |-> FALSE, page |-> 0, link |-> <<>>]

\* isPreviousData: the data shown was fetched for another page
IsPrevData == query.hasData /\ query.page # pageNumber

\* link?.includes("next"), with link = data ? data.headers["link"] : undefined
IncludesNext == query.hasData /\ \E i \in 1 .. Len(query.link) : query.link[i].rel = "next"

\* if (isError) throw: the page is gone once the query failed
Rendered == ~query.isError

\* Math.max(a, b)
MathMax(a, b) == IF a >= b THEN a ELSE b

\* const onPrevChat = () => { setPageNumber(Math.max(pageNumber - 1, 0)); }
OnPrevChat ==
  /\ Rendered
  /\ pageNumber' = MathMax(pageNumber - 1, 0)
  /\ UNCHANGED <<chats, nextId, now, req, deleted, held, query>>

\* const onNextChat = () => { if (!isPrevData && link?.includes("next")) ... }
OnNextChat ==
  /\ Rendered
  /\ pageNumber' = IF ~IsPrevData /\ IncludesNext THEN pageNumber + 1 ELSE pageNumber
  /\ UNCHANGED <<chats, nextId, now, req, deleted, held, query>>

\* useGetChats({ params: { page: pageNumber, perPage: 5, sortBy } }) sends the
\* list request of the signed-in user
DashFetch(r) ==
  /\ Rendered
  /\ StartList(r, {1}, {Num(pageNumber)}, {Num(PerPage)}, {Str(SortBy)})

\* the answer arrives: an answer for the page now asked for is shown, or is the
\* error the page throws on; any other answer is only cached
DashReceive(r) ==
  /\ req[r].op = "list" /\ req[r].pc = "done"
  /\ req' = [req EXCEPT ![r] = Idle]
  /\ query' =
       IF req[r].page.n # pageNumber THEN query
       ELSE IF req[r].resp.state = "sent" /\ req[r].resp.status = 200
         THEN [hasData |-> TRUE, isError |-> FALSE, page |-> req[r].page.n,
               link |-> req[r].resp.link]
       ELSE [query EXCEPT !.isError = TRUE]
  /\ UNCHANGED <<chats, nextId, now, deleted, held, pageNumber>>

(* ------------------------------ environment --------------------------- *)

\* the client has read the response (or given up on a request that threw); it
\* keeps the share token of an answer that carries one
Finish(r) ==
  /\ req[r].pc = "done"
  /\ req' = [req EXCEPT ![r] = Idle]
  /\ held' = IF req[r].resp.token # NoToken THEN req[r].resp.token ELSE held
  /\ UNCHANGED <<chats, nextId, now, deleted, dash>>

\* a day passes
Tick ==
  /\ now < MaxTime
  /\ now' = now + 1
  /\ UNCHANGED <<chats, nextId, req, deleted, held, dash>>

Init ==
  /\ chats = {}
  /\ nextId = 1
  /\ now = 0
  /\ req = [r \in Reqs |-> Idle]
  /\ deleted = {}
  /\ held = NoToken
  /\ pageNumber = 1
  /\ query = NoData

\* one request at a time / two requests at a time
Single == {1}
Pair == {1, 2}

\* the chat resource endpoints, one request at a time, for stored users
Next ==
  \/ \E r \in Single : StartCreate(r, Users, {GoodUri}, Names, MaxChats)
  \/ \E r \in Single : StartChatOp(r, {"get", "blob", "delete"}, Users)
  \/ \E r \in Single : StartRename(r, Users)
  \/ \E r \in Single : FindUser(r)
  \/ \E r \in Single : CreateChat(r)
  \/ \E r \in Single : GetFindChat(r)
  \/ \E r \in Single : BlobFindChat(r)
  \/ \E r \in Single : RenameUpdate(r)
  \/ \E r \in Single : RenameReread(r)
  \/ \E r \in Single : DeleteFindChat(r)
  \/ \E r \in Single : DeleteDestroy(r)
  \/ \E r \in Single : Finish(r)
  \/ Tick

Spec == Init /\ [][Next]_vars

\* bodies whose base64 field has no MIME segment or no decodable payload
MalformedUris == {NoMimeUri, BadPayloadUri, NoPayloadUri, NoMimePayloadUri}

OwnerOps == {"create", "list", "get", "rename", "delete", "blob", "token"}

\* every owner-scoped endpoint, one request at a time, whatever the token
\* resolves to and whatever the body of a create holds
NextOwner ==
  \/ \E r \in Single : StartCreate(r, AuthIds, {GoodUri} \cup MalformedUris, Names, MaxChats)
  \/ \E r \in Single : StartChatOp(r, {"get", "blob", "delete"}, AuthIds)
  \/ \E r \in Single : StartRename(r, AuthIds)
  \/ \E r \in Single : StartList(r, AuthIds, {NaN, Num(1)}, {Num(0), Num(1)},
                                 {Str("name"), Absent})
  \/ \E r \in Single : StartToken(r, AuthIds, {Absent, Str("junk")})
  \/ \E r \in Single : FindUser(r)
  \/ \E r \in Single : CreateChat(r)
  \/ \E r \in Single : GetFindChat(r)
  \/ \E r \in Single : BlobFindChat(r)
  \/ \E r \in Single : RenameUpdate(r)
  \/ \E r \in Single : RenameReread(r)
  \/ \E r \in Single : DeleteFindChat(r)
  \/ \E r \in Single : DeleteDestroy(r)
  \/ \E r \in Single : ListQuery(r)
  \/ \E r \in Single : ListCount(r)
  \/ \E r \in Single : Finish(r)

SpecOwner == Init /\ [][NextOwner]_vars

\* create, get, get blob and delete, two requests at a time
NextDelete ==
  \/ \E r \in Pair : StartCreate(r, Users, {GoodUri}, {"a"}, MaxChats)
  \/ \E r \in Pair : StartChatOp(r, {"get", "blob", "delete"}, Users)
  \/ \E r \in Pair : FindUser(r)
  \/ \E r \in Pair : CreateChat(r)
  \/ \E r \in Pair : GetFindChat(r)
  \/ \E r \in Pair : BlobFindChat(r)
  \/ \E r \in Pair : DeleteFindChat(r)
  \/ \E r \in Pair : DeleteDestroy(r)
  \/ \E r \in Pair : Finish(r)

SpecDelete == Init /\ [][NextDelete]_vars

\* page and perPage of a list request: NaN, or a number from -1 to MaxPage
PageParams == {NaN} \cup {Num(n) : n \in (0 - 1) .. MaxPage}

\* create and list, one request at a time
NextList ==
  \/ \E r \in Single : StartCreate(r, Users, {GoodUri}, Names, MaxListed)
  \/ \E r \in Single : StartList(r, {1}, PageParams, PageParams,
                                 {Str(c) : c \in SortColumns})
  \/ \E r \in Single : FindUser(r)
  \/ \E r \in Single : CreateChat(r)
  \/ \E r \in Single : ListQuery(r)
  \/ \E r \in Single : ListCount(r)
  \/ \E r \in Single : Finish(r)
  \/ Tick

SpecList == Init /\ [][NextList]_vars

\* create, rename and delete by one user, NumReqs requests at a time
NextRace ==
  \/ \E r \in Reqs : StartCreate(r, {1}, {GoodUri}, {"a"}, MaxChats)
  \/ \E r \in Reqs : StartChatOp(r, {"delete"}, {1})
  \/ \E r \in Reqs : StartRename(r, {1})
  \/ \E r \in Reqs : FindUser(r)
  \/ \E r \in Reqs : CreateChat(r)
  \/ \E r \in Reqs : RenameUpdate(r)
  \/ \E r \in Reqs : RenameReread(r)
  \/ \E r \in Reqs : DeleteFindChat(r)
  \/ \E r \in Reqs : DeleteDestroy(r)
  \/ \E r \in Reqs : Finish(r)

SpecRace == Init /\ [][NextRace]_vars

\* values of the expiresIn query parameter
Spans == {Absent, NotString, Str(""), Str("1d"), Str("-1d"), Str("junk")}

SharedOps == {"sharedGet", "sharedBlob"}

\* create, delete, issue token and the two token-scoped endpoints, one request
\* at a time, while days pass
NextShare ==
  \/ \E r \in Single : StartCreate(r, Users, {GoodUri}, {"a"}, MaxChats)
  \/ \E r \in Single : StartChatOp(r, {"delete"}, Users)
  \/ \E r \in Single : StartToken(r, Users, Spans)
  \/ \E r \in Single : StartShared(r, SharedOps)
  \/ \E r \in Single : FindUser(r)
  \/ \E r \in Single : CreateChat(r)
  \/ \E r \in Single : DeleteFindChat(r)
  \/ \E r \in Single : DeleteDestroy(r)
  \/ \E r \in Single : SharedQuery(r)
  \/ \E r \in Single : SharedFindByPk(r)
  \/ \E r \in Single : Finish(r)
  \/ Tick

SpecShare == Init /\ [][NextShare]_vars

\* the Dashboard of user 1 paging through the chats, while chats are created
NextDashboard ==
  \/ \E r \in {2} : StartCreate(r, {1}, {GoodUri}, {"a"}, MaxShown)
  \/ \E r \in {1} : DashFetch(r)
  \/ \E r \in Pair : FindUser(r)
  \/ \E r \in {2} : CreateChat(r)
  \/ \E r \in {1} : ListQuery(r)
  \/ \E r \in {1} : ListCount(r)
  \/ \E r \in {1} : DashReceive(r)
  \/ \E r \in {2} : Finish(r)
  \/ OnPrevChat
  \/ OnNextChat

SpecDashboard == Init /\ [][NextDashboard]_vars

(* ------------------------------- claims ------------------------------- *)

\* request r takes the step that leaves program point pc
Leaves(r, op, pc) == req[r].op = op /\ req[r].pc = pc /\ req'[r].pc # pc

\* C1: the issue-share-token operation produces a token for chatId only if a
\* chat with that chatId exists and is owned by the authenticated caller; for
\* every chatId that does not exist or belongs to another user it answers 404
\* and no token is issued.
C1_TokenOnlyForOwnChat ==
  [][\A r \in Reqs :
       (/\ Leaves(r, "token", "findUser")
        /\ req[r].auth \in Users
        /\ ~ \E c \in chats : c.chatId = req[r].chatId /\ c.userId = req[r].auth)
         => /\ req'[r].resp.state = "sent" /\ req'[r].resp.status = 404
            /\ req'[r].resp.token = NoToken]_vars

\* where an owner-scoped request stands, given what its token resolved to
ChecksFirst(r) ==
  LET q == req[r]
      forbidden == [NoResp EXCEPT !.state = "sent", !.status = 403,
                                  !.message = "Not a valid token"]
      noUser == [NoResp EXCEPT !.state = "sent", !.status = 404,
                               !.message = "User not found"]
  IN  q.op \in OwnerOps =>
        /\ q.auth = 0 => q.pc = "done" /\ q.resp = forbidden
        /\ (q.auth # 0 /\ q.auth \notin Users) =>
             \/ q.pc = "findUser" /\ q.resp.state = "pending"
             \/ q.pc = "done" /\ q.resp = noUser
        /\ q.auth \in Users => q.resp # forbidden /\ q.resp # noUser

\* C2: every owner-scoped endpoint first checks that the resolved userId is
\* non-zero and answers 403 if not, then checks that the user exists and answers
\* 404 'User not found' if not, and only after both checks pass performs any
\* parameter validation, chat lookup or mutation; on 403 or 404 from these
\* checks the store is unchanged.
C2_ChecksBeforeWork ==
  [][\A r \in Reqs :
       /\ ChecksFirst(r)'
       /\ (req'[r] # req[r] /\ req'[r].op \in OwnerOps /\ req'[r].auth \notin Users)
            => chats' = chats /\ nextId' = nextId]_vars

\* a delete by a user whose row is gone has been answered 404 'User not found'
\* while the chat it names is stored
C2_Witness ==
  \E r \in Reqs :
    /\ req[r].op = "delete" /\ req[r].auth = 3 /\ req[r].pc = "done"
    /\ req[r].resp.status = 404 /\ req[r].resp.message = "User not found"
    /\ \E c \in chats : c.chatId = req[r].chatId

\* C3: for an authenticated existing user, get-by-id answers 200 with the
\* metadata (chatId, userId, name, createdAt, updatedAt, blobUrl, no data) of the
\* chat exactly when a chat with that chatId owned by the caller exists, and 404
\* otherwise; no other outcome occurs.
C3_GetByIdAnswers ==
  [][\A r \in Reqs : Leaves(r, "get", "findChat") =>
       IF \E c \in chats : c.chatId = req[r].chatId /\ c.userId = req[r].auth
         THEN \E c \in chats :
                /\ c.chatId = req[r].chatId /\ c.userId = req[r].auth
                /\ req'[r].resp.state = "sent" /\ req'[r].resp.status = 200
                /\ req'[r].resp.body =
                     <<[blobUrl |-> <<"originalUrl", c.chatId>>, chatId |-> c.chatId,
                        userId |-> c.userId, name |-> c.name,
                        createdAt |-> c.createdAt, updatedAt |-> c.updatedAt]>>
         ELSE /\ req'[r].resp.state = "sent" /\ req'[r].resp.status = 404
              /\ req'[r].resp.message = "Chat not found"]_vars

\* C4 as claimed: for every token and every state of the chat store, the two
\* token-scoped endpoints answer only with status 200 or 410, and answer 410
\* whenever token verification fails.
C4_Only200Or410 ==
  \A r \in Reqs :
    (req[r].op \in SharedOps /\ req[r].pc = "done") =>
      /\ req[r].resp.state = "sent"
      /\ req[r].resp.status \in {200, 410}

\* C4 as amended: get blob via token answers only 200 or 410; get chat metadata
\* via token answers only 200, 404 or 410, 404 'Chat not found' exactly when the
\* token verifies and no chat has its chatId; both answer 410 whenever token
\* verification fails (bad signature, malformed, or expired).
C4_SharedStatuses ==
  [][\A r \in Reqs :
       LET tok == req'[r].token
           gone == [NoResp EXCEPT !.state = "sent", !.status = 410]
       IN  /\ (req[r].op = "idle" /\ req'[r].op \in SharedOps) =>
                IF tok.sig = "good" /\ tok.exp > now
                  THEN req'[r].pc = "sharedFind" /\ req'[r].resp.state = "pending"
                  ELSE /\ req'[r].pc = "done" /\ req'[r].resp.state = "sent"
                       /\ req'[r].resp.status = 410
           /\ Leaves(r, "sharedGet", "sharedFind") =>
                /\ req'[r].resp.state = "sent"
                /\ IF \E c \in chats : c.chatId = tok.chatId
                     THEN /\ req'[r].resp.status = 200
                          /\ \E c \in chats :
                               /\ c.chatId = tok.chatId
                               /\ req'[r].resp.body =
                                    <<[blobUrl |-> <<"originalUrl", c.chatId>>,
                                       chatId |-> c.chatId, userId |-> c.userId,
                                       createdAt |-> c.createdAt,
                                       updatedAt |-> c.updatedAt]>>
                     ELSE /\ req'[r].resp.status = 404
                          /\ req'[r].resp.message = "Chat not found"
           /\ Leaves(r, "sharedBlob", "sharedFind") =>
                /\ req'[r].resp.state = "sent"
                /\ IF \E c \in chats : c.chatId = tok.chatId
                     THEN /\ req'[r].resp.status = 200
                          /\ \E c \in chats :
                               /\ c.chatId = tok.chatId
                               /\ req'[r].resp.body =
                                    <<[mimeType |-> c.mimeType, data |-> c.data]>>
                     ELSE req'[r].resp.status = 410]_vars

\* the metadata of a chat has been asked for with a token that verifies, after
\* the owner of the chat of that id deleted it
C4_Witness ==
  \E r \in Reqs :
    /\ req[r].op = "sharedGet" /\ req[r].pc = "done"
    /\ req[r].token.sig = "good" /\ req[r].token.exp > now
    /\ \E u \in Users : <<u, req[r].token.chatId>> \in deleted

\* C5: after delete of (userId, chatId) succeeds with 200, every subsequent
\* get-by-id and get-blob by that user for that chatId answers 404 'Chat not
\* found', whatever other operations run in between.
C5_DeletedStaysGone ==
  \A r \in Reqs :
    (req[r].op \in {"get", "blob"} /\ req[r].after /\ req[r].pc = "done")
      => /\ req[r].resp.state = "sent" /\ req[r].resp.status = 404
         /\ req[r].resp.message = "Chat not found"

\* a get of a deleted chat, begun after the delete was answered 200, has been
\* answered while a chat created since is stored
C5_Witness ==
  \E r \in Reqs :
    /\ req[r].op = "get" /\ req[r].after /\ req[r].pc = "done"
    /\ <<req[r].auth, req[r].chatId>> \in deleted
    /\ \E c \in chats : c.chatId > req[r].chatId /\ c.userId = req[r].auth

\* every row after the step is a row before it, but for name and updatedAt of
\* the chat (u, id), which has the name nm and the current time
OnlyRenamed(u, id, nm) ==
  /\ Cardinality(chats') = Cardinality(chats)
  /\ \A d \in chats' : \E c \in chats :
       /\ d.chatId = c.chatId /\ d.userId = c.userId /\ d.createdAt = c.createdAt
       /\ d.mimeType = c.mimeType /\ d.data = c.data
       /\ IF c.chatId = id /\ c.userId = u
            THEN d.name = nm /\ d.updatedAt = now
            ELSE d = c

\* C6: rename of a chatId that is owned by a different user, or that does not
\* exist, answers 404 'Chat not found' and leaves every stored chat unchanged; a
\* successful rename changes only name and updatedAt of the one chat matching
\* (userId, chatId).
C6_RenameOwnerScoped ==
  [][\A r \in Reqs :
       /\ Leaves(r, "rename", "update") =>
            IF \E c \in chats : c.chatId = req[r].chatId /\ c.userId = req[r].auth
              THEN /\ OnlyRenamed(req[r].auth, req[r].chatId, req[r].name)
                   /\ req'[r].resp.state = "pending"
              ELSE /\ chats' = chats
                   /\ req'[r].resp = [NoResp EXCEPT !.state = "sent", !.status = 404,
                                                    !.message = "Chat not found"]
       /\ Leaves(r, "rename", "reread") =>
            /\ chats' = chats
            /\ req'[r].resp.state = "sent" =>
                 /\ req'[r].resp.status = 200
                 /\ \E c \in chats : /\ c.chatId = req[r].chatId
                                     /\ c.userId = req[r].auth
                                     /\ c.name = req[r].name
                                     /\ req'[r].resp.body[1].name = c.name
                                     /\ req'[r].resp.body[1].chatId = c.chatId]_vars

\* a rename of a chat of another user has been answered 404, after a rename by
\* its owner went through on a later day than the chat was created
C6_Witness ==
  \E r \in Reqs :
    /\ req[r].op = "rename" /\ req[r].pc = "done" /\ req[r].resp.status = 404
    /\ \E c \in chats : /\ c.chatId = req[r].chatId
                        /\ c.userId # req[r].auth
                        /\ c.updatedAt > c.createdAt
                        /\ c.name # req[r].name

\* the rel values of the entries of a Link header
Rels(link) == {link[i].rel : i \in 1 .. Len(link)}

\* C7: for every accepted list request with page, perPage and a user owning
\* total chats, the Link header contains a rel="prev" entry if and only if
\* page > 1, and a rel="next" entry if and only if page < ceil(total / perPage)
\* (for perPage > 0 that is: perPage * page < total).
C7_LinkHeader ==
  [][\A r \in Reqs : Leaves(r, "list", "listCount") =>
       LET total == Cardinality({c \in chats : c.userId = req[r].auth})
           rels == Rels(req'[r].resp.link)
       IN  /\ req'[r].resp.state = "sent" /\ req'[r].resp.status = 200
           /\ "prev" \in rels <=> req[r].page.n > 1
           /\ "next" \in rels <=> req[r].perPage.n * req[r].page.n < total
           /\ rels \subseteq {"prev", "next"}]_vars

\* a list has been answered with a prev and a next entry in its Link header
C7_Witness ==
  \E r \in Reqs :
    /\ req[r].op = "list" /\ req[r].pc = "done" /\ req[r].resp.status = 200
    /\ Rels(req[r].resp.link) = {"prev", "next"}

\* C8: for every list request that passes validation, the response holds at
\* most perPage chats, all owned by the caller, namely the rows obtained by
\* skipping perPage * (page - 1) rows and taking perPage; and the total used for
\* paging equals the number of all chats owned by that user, independent of page
\* and perPage.
C8_PageOfRows ==
  [][\A r \in Reqs :
       LET own == {c \in chats : c.userId = req[r].auth}
           n == req[r].perPage.n
           skip == n * (req[r].page.n - 1)
           rest == IF Cardinality(own) > skip THEN Cardinality(own) - skip ELSE 0
           res == req'[r].rows
       IN  /\ (Leaves(r, "list", "listQuery") /\ req'[r].pc = "listCount") =>
                /\ Len(res) <= n
                /\ Len(res) = IF rest < n THEN rest ELSE n
                /\ \A i \in 1 .. Len(res) : res[i].userId = req[r].auth
                /\ \E ord \in Orderings(own, req[r].sortBy.text) :
                     \A i \in 1 .. Len(res) :
                       /\ res[i].chatId = ord[skip + i].chatId
                       /\ res[i].name = ord[skip + i].name
                       /\ res[i].createdAt = ord[skip + i].createdAt
                       /\ res[i].updatedAt = ord[skip + i].updatedAt
                       /\ DOMAIN res[i] = {"blobUrl", "chatId", "userId", "name",
                                           "createdAt", "updatedAt"}
           /\ Leaves(r, "list", "listCount") =>
                /\ req'[r].resp.body = req[r].rows
                /\ req'[r].resp.total = Cardinality(own)]_vars

\* the second page of one row has been answered to a user who owns two chats,
\* while another user owns a chat too
C8_Witness ==
  \E r \in Reqs :
    /\ req[r].op = "list" /\ req[r].pc = "done" /\ req[r].resp.status = 200
    /\ req[r].page.n = 2 /\ req[r].perPage.n = 1
    /\ Len(req[r].resp.body) = 1
    /\ req[r].resp.total = 2
    /\ \E c \in chats : c.userId # req[r].auth

\* C9: create with a body whose base64 field has no recognizable MIME segment
\* or an undecodable payload ends in a validation error answered with status
\* 400, and no chat is inserted (store unchanged).
C9_MalformedBlobIs400 ==
  [][\A r \in Reqs :
       (req'[r] # req[r] /\ req'[r].op = "create" /\ req'[r].uri \in MalformedUris
        /\ req'[r].auth \in Users)
         => /\ chats' = chats
            /\ req'[r].pc = "done" =>
                 req'[r].resp.state = "sent" /\ req'[r].resp.status = 400]_vars

\* C10: when a rename and a delete of the same (userId, chatId) run
\* concurrently, under every interleaving of their datastore steps the rename
\* completes with either 200 and chat metadata or 404, never an unhandled
\* failure, and the chat is absent from the store once both have finished.
C10_RenameDeleteRace ==
  \A r \in Reqs :
    (req[r].op = "rename" /\ req[r].pc = "done") =>
      /\ req[r].resp.state = "sent" /\ req[r].resp.status \in {200, 404}
      /\ \A q \in Reqs :
           (/\ req[q].op = "delete" /\ req[q].pc = "done"
            /\ req[q].resp.status = 200
            /\ req[q].auth = req[r].auth /\ req[q].chatId = req[r].chatId)
             => ~ \E c \in chats : c.chatId = req[r].chatId

\* C11: in the Dashboard, starting from pageNumber = 1, after any sequence of
\* onPrevChat and onNextChat invocations pageNumber is always >= 1, so the list
\* endpoint is never requested with a page that it rejects as invalid (page = 0
\* gives 400 'Invalid perPage or page'); onNextChat increases pageNumber only
\* when the current response is not previous data and its Link header contains
\* a next entry.
C11_PageNumberAtLeastOne ==
  [][/\ pageNumber' >= 1
     /\ \A r \in Reqs :
          (req'[r].op = "list" /\ req'[r].pc = "done") =>
            ~(req'[r].resp.status = 400
              /\ req'[r].resp.message = "Invalid perPage or page")
     /\ pageNumber' > pageNumber => ~IsPrevData /\ IncludesNext]_vars

====
